---------------------------- MODULE Spec2Model ----------------------------
(***************************************************************************)
(* Roadmap pipeline of Baseline_Agent: the pydantic graph model            *)
(* (schemas.py), the fallback synthesizer (fallback.py), the two Graphviz  *)
(* layout planners (viz_graphviz.py), the extraction step                  *)
(* (llm_analyzer.py) and the entry point (main.py).                        *)
(*                                                                         *)
(* A Python str is a sequence of one-character strings.  A character       *)
(* outside ASCII is written by its code point ("u6280").                   *)
(***************************************************************************)
EXTENDS Integers, Sequences, FiniteSets, TLC

VARIABLES
    data,                 \* the raw dict handed to Roadmap(**data)
    roadmap_data,         \* the Roadmap object (NoRoadmap before construction)
    pc,                   \* position of the pipeline
    raw_text,             \* build_fallback_roadmap's raw_text argument
    error,                \* build_fallback_roadmap's error argument
    max_methods_per_row,  \* draw_roadmap's batch size
    dot,                  \* the graphviz.Digraph built by a planner
    content,              \* the reply of the chat completion API
    args,                 \* main's command line and what it finds on disk
    calls                 \* what main has called on its Roadmap so far

vars == <<data, roadmap_data, pc, raw_text, error, max_methods_per_row, dot,
          content, args, calls>>

---------------------------------------------------------------------------
(* Bounds of the explored inputs.                                          *)

MaxNodes == 2
PlanNodes == 3
MaxErrLen == 22
MaxBatch == 3
MaxMethodEdges == 4
MaxReplyLen == 2
MaxPlanEdges == 2

\* max_methods_per_row's default.
DefaultBatch == 3

---------------------------------------------------------------------------
(* Strings.                                                                *)

Range(s) == {s[i] : i \in 1..Len(s)}

SeqsUpTo(S, n) == UNION {[1..k -> S] : k \in 0..n}

IsSpace(ch) == ch \in {" ", "\t", "\n"}

\* str.strip(): the leading and the trailing whitespace are removed.
Strip(v) ==
    LET keep == {i \in 1..Len(v) : ~IsSpace(v[i])}
    IN  IF keep = {} THEN <<>>
        ELSE LET lo == CHOOSE i \in keep : \A j \in keep : i <= j
                 hi == CHOOSE i \in keep : \A j \in keep : j <= i
             IN  SubSeq(v, lo, hi)

\* `not v or not v.strip()`: the validators' rejection test.
IsBlank(v) == v = <<>> \/ Strip(v) = <<>>

---------------------------------------------------------------------------
(* schemas.py                                                              *)

NodeType == {"stage_label", "task", "sub_content", "method", "phase"}

NoRoadmap == [title |-> <<>>, clusters |-> <<>>, nodes |-> <<>>, edges |-> <<>>]

NoData == NoRoadmap

\* ClusterItem: the validator not_empty on id and label.
ClusterItemValid(c) == ~IsBlank(c.id) /\ ~IsBlank(c.label)

ClusterItem(c) == [id |-> Strip(c.id), label |-> Strip(c.label)]

\* NodeItem: id_not_empty, label_not_empty, cluster_not_empty, and the enum.
NodeItemValid(n) ==
    /\ ~IsBlank(n.id)
    /\ ~IsBlank(n.label)
    /\ n.type \in NodeType
    /\ ~IsBlank(n.parent_cluster)

NodeItem(n) ==
    [id |-> Strip(n.id), label |-> Strip(n.label), type |-> n.type,
     parent_cluster |-> Strip(n.parent_cluster)]

\* EdgeItem: endpoint_not_empty on source and target; the label is free.
EdgeItemValid(e) == ~IsBlank(e.source) /\ ~IsBlank(e.target)

EdgeItem(e) == [source |-> Strip(e.source), target |-> Strip(e.target), label |-> e.label]

MapSeq(Op(_), s) == [i \in 1..Len(s) |-> Op(s[i])]

\* Roadmap.title_not_empty
TitleValid(v) == ~IsBlank(v)

\* Roadmap.clusters_non_empty: every item valid, the list not empty, ids unique.
ClustersDropUnique(v) ==
    /\ \A i \in 1..Len(v) : ClusterItemValid(v[i])
    /\ v # <<>>

ClustersValid(v) ==
    /\ \A i \in 1..Len(v) : ClusterItemValid(v[i])
    /\ v # <<>>
    /\ LET ids == [i \in 1..Len(v) |-> ClusterItem(v[i]).id]
       IN  Len(ids) = Cardinality(Range(ids))

\* Roadmap.nodes_non_empty
NodesValid(v) ==
    /\ \A i \in 1..Len(v) : NodeItemValid(v[i])
    /\ v # <<>>

\* Roadmap.edges_non_empty: an empty list is accepted.
EdgesValid(v) == \A i \in 1..Len(v) : EdgeItemValid(v[i])

\* Roadmap(**d) raises ValidationError unless every field validates.
RoadmapValid(d) ==
    /\ TitleValid(d.title)
    /\ ClustersValid(d.clusters)
    /\ NodesValid(d.nodes)
    /\ EdgesValid(d.edges)

Roadmap(d) ==
    [title |-> Strip(d.title),
     clusters |-> MapSeq(ClusterItem, d.clusters),
     nodes |-> MapSeq(NodeItem, d.nodes),
     edges |-> MapSeq(EdgeItem, d.edges)]

\* Roadmap.ensure_consistency: the first check that raises, or "ok".
ConsistencySkipEdges(rm) ==
    LET ids == [i \in 1..Len(rm.nodes) |-> rm.nodes[i].id]
        id_set == Range(ids)
        cluster_ids == {rm.clusters[i].id : i \in 1..Len(rm.clusters)}
    IN  IF Len(ids) # Cardinality(id_set) THEN "duplicate_node_id"
        ELSE IF \E i \in 1..Len(rm.nodes) : rm.nodes[i].parent_cluster \notin cluster_ids
             THEN "undeclared_cluster"
        ELSE "ok"

ensure_consistency(rm) ==
    LET ids == [i \in 1..Len(rm.nodes) |-> rm.nodes[i].id]
        id_set == Range(ids)
        cluster_ids == {rm.clusters[i].id : i \in 1..Len(rm.clusters)}
    IN  IF Len(ids) # Cardinality(id_set) THEN "duplicate_node_id"
        ELSE IF \E i \in 1..Len(rm.edges) :
                    rm.edges[i].source \notin id_set \/ rm.edges[i].target \notin id_set
             THEN "dangling_edge"
        ELSE IF \E i \in 1..Len(rm.nodes) : rm.nodes[i].parent_cluster \notin cluster_ids
             THEN "undeclared_cluster"
        ELSE "ok"

---------------------------------------------------------------------------
(* fallback.py                                                             *)

TruncLen == 20

FallbackTitleBase ==
    <<"u6280", "u672f", "u8def", "u7ebf", "u56fe", "uff08", "u89e3", "u6790",
      "u5931", "u8d25", "u56de", "u9000", "uff09">>

ErrorOpen == <<" ", "[", "E", "r", "r", "o", "r", ":", " ">>

ErrorClose == <<".", ".", ".", "]">>

\* v[:n] cut one character short.
SliceShort(v, n) == SubSeq(v, 1, IF Len(v) < n - 1 THEN Len(v) ELSE n - 1)

\* v[:n]
Slice(v, n) == SubSeq(v, 1, IF Len(v) < n THEN Len(v) ELSE n)

\* title, lines 11-13: `if error:` is false exactly for the empty string.
FallbackTitle(err) ==
    IF err # <<>> THEN FallbackTitleBase \o ErrorOpen \o Slice(err, TruncLen) \o ErrorClose
    ELSE FallbackTitleBase

Phase(k) == <<"p", "h", "a", "s", "e", k>>

FallbackClusters ==
    << [id |-> Phase("1"), label |-> <<"u9636", "u6bb5", "u4e00", "uff1a", "u7814", "u7a76", "u51c6", "u5907">>],
       [id |-> Phase("2"), label |-> <<"u9636", "u6bb5", "u4e8c", "uff1a", "u6838", "u5fc3", "u7814", "u7a76">>],
       [id |-> Phase("3"), label |-> <<"u9636", "u6bb5", "u4e09", "uff1a", "u5e94", "u7528", "u9a8c", "u8bc1">>] >>

FallbackNodes ==
    << [id |-> <<"s", "1">>, label |-> <<"u7814", "u7a76", "u51c6", "u5907">>, type |-> "stage_label", parent_cluster |-> Phase("1")],
       [id |-> <<"t", "1">>, label |-> <<"u6587", "u732e", "u8c03", "u7814">>, type |-> "task", parent_cluster |-> Phase("1")],
       [id |-> <<"s", "u", "b", "1">>, label |-> <<"u8f93", "u5165", "uff1a", "u77e5", "u7f51", "/", "W", "O", "S">>, type |-> "sub_content", parent_cluster |-> Phase("1")],
       [id |-> <<"m", "1">>, label |-> <<"u6587", "u732e", "u5206", "u6790", "u6cd5">>, type |-> "method", parent_cluster |-> Phase("1")],
       [id |-> <<"s", "2">>, label |-> <<"u6838", "u5fc3", "u7814", "u7a76">>, type |-> "stage_label", parent_cluster |-> Phase("2")],
       [id |-> <<"t", "2">>, label |-> <<"u6784", "u5efa", "u6a21", "u578b">>, type |-> "task", parent_cluster |-> Phase("2")],
       [id |-> <<"s", "u", "b", "2">>, label |-> <<"u53d8", "u91cf", "uff1a", "G", "D", "P", "/", "R", "&", "D">>, type |-> "sub_content", parent_cluster |-> Phase("2")],
       [id |-> <<"m", "2">>, label |-> <<"u56de", "u5f52", "u5206", "u6790">>, type |-> "method", parent_cluster |-> Phase("2")],
       [id |-> <<"s", "3">>, label |-> <<"u5e94", "u7528", "u9a8c", "u8bc1">>, type |-> "stage_label", parent_cluster |-> Phase("3")],
       [id |-> <<"t", "3">>, label |-> <<"u5b9e", "u8bc1", "u5206", "u6790">>, type |-> "task", parent_cluster |-> Phase("3")],
       [id |-> <<"s", "u", "b", "3">>, label |-> <<"u6307", "u6807", "uff1a", "u51c6", "u786e", "u7387">>, type |-> "sub_content", parent_cluster |-> Phase("3")],
       [id |-> <<"m", "3">>, label |-> <<"u6848", "u4f8b", "u7814", "u7a76">>, type |-> "method", parent_cluster |-> Phase("3")] >>

\* An edge dict without a "label" key: EdgeItem's default label "".
Edge(s, t) == [source |-> s, target |-> t, label |-> <<>>]

\* The edge list with t3's detail edge aimed at sub2.
FallbackEdgesCrossed ==
    << Edge(<<"t", "1">>, <<"t", "2">>),
       Edge(<<"t", "2">>, <<"t", "3">>),
       Edge(<<"t", "1">>, <<"s", "u", "b", "1">>),
       Edge(<<"t", "2">>, <<"s", "u", "b", "2">>),
       Edge(<<"t", "3">>, <<"s", "u", "b", "2">>),
       Edge(<<"s", "u", "b", "1">>, <<"m", "1">>),
       Edge(<<"s", "u", "b", "2">>, <<"m", "2">>),
       Edge(<<"s", "u", "b", "3">>, <<"m", "3">>) >>

FallbackEdges ==
    << Edge(<<"t", "1">>, <<"t", "2">>),
       Edge(<<"t", "2">>, <<"t", "3">>),
       Edge(<<"t", "1">>, <<"s", "u", "b", "1">>),
       Edge(<<"t", "2">>, <<"s", "u", "b", "2">>),
       Edge(<<"t", "3">>, <<"s", "u", "b", "3">>),
       Edge(<<"s", "u", "b", "1">>, <<"m", "1">>),
       Edge(<<"s", "u", "b", "2">>, <<"m", "2">>),
       Edge(<<"s", "u", "b", "3">>, <<"m", "3">>) >>

\* The keyword arguments of the Roadmap(...) call on line 51.
FallbackData(text, err) ==
    [title |-> FallbackTitle(err), clusters |-> FallbackClusters,
     nodes |-> FallbackNodes, edges |-> FallbackEdges]

---------------------------------------------------------------------------
(* viz_graphviz.py: what both planners share.                              *)

RECURSIVE Flatten(_)
\* The concatenation of a sequence of sequences: nested loops that emit.
Flatten(ss) == IF ss = <<>> THEN <<>> ELSE Head(ss) \o Flatten(Tail(ss))

Last(S) == CHOOSE i \in S : \A j \in S : j <= i

\* {n.id: idx for idx, n in enumerate(nodes)}: a later entry overwrites.
node_index(rm) ==
    [id \in {rm.nodes[i].id : i \in 1..Len(rm.nodes)} |->
        Last({i \in 1..Len(rm.nodes) : rm.nodes[i].id = id}) - 1]

\* {n.id: n for n in nodes}
nodes_by_id(rm) ==
    [id \in {rm.nodes[i].id : i \in 1..Len(rm.nodes)} |->
        rm.nodes[Last({i \in 1..Len(rm.nodes) : rm.nodes[i].id = id})]]

\* edges_by_source.get(src, [])
edges_by_source(rm, src) == SelectSeq(rm.edges, LAMBDA e : e.source = src)

\* The sort keys negated, as sorted(..., reverse=True) would order.
SortKeysReversed(rm, lst) == [i \in 1..Len(lst) |-> 0 - node_index(rm)[lst[i].id]]

\* key=lambda x: node_index.get(x.id, 0), for each element of lst.
SortKeys(rm, lst) == [i \in 1..Len(lst) |-> node_index(rm)[lst[i].id]]

\* sorted(lst, key=...): stable, ascending in the key.
Sorted(lst, keys) ==
    LET n == Len(lst)
        rank(i) == 1 + Cardinality({j \in 1..n :
                        keys[j] < keys[i] \/ (keys[j] = keys[i] /\ j < i)})
    IN  [r \in 1..n |-> lst[CHOOSE i \in 1..n : rank(i) = r]]

StageTypes == {"phase", "stage_label"}

\* existing_pairs = {(e.source, e.target) for e in edges}
existing_pairs(rm) == {<<rm.edges[k].source, rm.edges[k].target>> : k \in 1..Len(rm.edges)}

NoLabel == <<>>

\* dot.edge(a, b, style="solid", arrowhead="normal") for every adjacent pair
\* of ids that is no explicit edge.
AdjacencyAlways(rm, ids, origin) ==
    [i \in 1..(Len(ids) - 1) |->
        [source |-> ids[i], target |-> ids[i + 1], label |-> NoLabel,
         style |-> "solid", arrowhead |-> "normal", weight |-> "", origin |-> origin]]

Adjacency(rm, ids, origin) ==
    LET idx == SelectSeq([i \in 1..(Len(ids) - 1) |-> i],
                         LAMBDA i : <<ids[i], ids[i + 1]>> \notin existing_pairs(rm))
    IN  [k \in 1..Len(idx) |->
            [source |-> ids[idx[k]], target |-> ids[idx[k] + 1], label |-> NoLabel,
             style |-> "solid", arrowhead |-> "normal", weight |-> "", origin |-> origin]]

Ids(lst) == [i \in 1..Len(lst) |-> lst[i].id]

---------------------------------------------------------------------------
(* viz_graphviz.py: draw_roadmap (stacked mode).                           *)

\* Lines 103-105.
stage_nodes(rm, cluster_id) ==
    LET sel == SelectSeq(rm.nodes, LAMBDA n : n.parent_cluster = cluster_id /\ n.type \in StageTypes)
    IN  Sorted(sel, SortKeys(rm, sel))

\* Lines 114-116.
cluster_inner_nodes(rm, cluster_id) ==
    LET sel == SelectSeq(rm.nodes, LAMBDA n : n.parent_cluster = cluster_id /\ n.type \notin StageTypes)
    IN  Sorted(sel, SortKeys(rm, sel))

\* Lines 106-108 and 117-120: the node statements of one cluster, the stage
\* nodes on the main graph (box ""), the others inside the cluster's box.
DrawClusterNodes(rm, cluster_id) ==
    LET st == stage_nodes(rm, cluster_id)
        inner == cluster_inner_nodes(rm, cluster_id)
    IN  [i \in 1..Len(st) |->
            [id |-> st[i].id, label |-> st[i].label, shape |-> "box",
             group |-> "phase", box |-> <<>>]]
        \o
        [i \in 1..Len(inner) |->
            [id |-> inner[i].id, label |-> inner[i].label,
             shape |-> IF inner[i].type = "task" THEN "box" ELSE "parallelogram",
             group |-> IF inner[i].type = "task" THEN "task" ELSE "method",
             box |-> cluster_id]]

\* Line 124.
row_tasks(rm, p) ==
    LET es == SelectSeq(edges_by_source(rm, p.id),
                        LAMBDA e : e.target \in DOMAIN nodes_by_id(rm)
                                   /\ nodes_by_id(rm)[e.target].type = "task")
    IN  [i \in 1..Len(es) |-> nodes_by_id(rm)[es[i].target]]

\* Line 128.
methods(rm, t) ==
    LET es == SelectSeq(edges_by_source(rm, t.id),
                        LAMBDA e : e.target \in DOMAIN nodes_by_id(rm)
                                   /\ nodes_by_id(rm)[e.target].type = "method")
    IN  [i \in 1..Len(es) |-> nodes_by_id(rm)[es[i].target]]

\* _chunks without the `or [[]]`.
ChunksNoEmptyRow(lst, size) ==
    IF size < 0 THEN <<>>
    ELSE LET starts == {i \in 0..(Len(lst) - 1) : i % size = 0}
         IN  [k \in 1..Cardinality(starts) |->
                SubSeq(lst, (k - 1) * size + 1,
                       IF k * size < Len(lst) THEN k * size ELSE Len(lst))]

\* _chunks, lines 131-132, for size # 0: range(0, len(lst), size) is empty for
\* a negative size, and an empty list of chunks becomes [[]].
Chunks(lst, size) ==
    LET starts == IF size < 0 THEN {} ELSE {i \in 0..(Len(lst) - 1) : i % size = 0}
        cs == [k \in 1..Cardinality(starts) |->
                 SubSeq(lst, (k - 1) * size + 1,
                        IF k * size < Len(lst) THEN k * size ELSE Len(lst))]
    IN  IF cs = <<>> THEN << <<>> >> ELSE cs

\* Lines 134-143: the rank=same rows of one task of one stage node, each a
\* subgraph of the cluster's box holding a proxy, the task and one chunk.
TaskRows(rm, cluster_id, p, t, size) ==
    LET cs == Chunks(methods(rm, t), size)
    IN  [k \in 1..Len(cs) |->
            [cluster |-> cluster_id, p |-> p.id, t |-> t.id, idx |-> k - 1,
             members |->
                << [id |-> <<"proxy", p.id, t.id, k - 1>>, kind |-> "proxy",
                    style |-> "invis", width |-> "0", height |-> "0", group |-> "phase"],
                   [id |-> t.id, kind |-> "node", style |-> "", width |-> "",
                    height |-> "", group |-> ""] >>
                \o [j \in 1..Len(cs[k]) |->
                      [id |-> cs[k][j].id, kind |-> "node", style |-> "", width |-> "",
                       height |-> "", group |-> ""]]]]

\* Lines 122-143 for one cluster.
ClusterRows(rm, cluster_id, size) ==
    LET st == stage_nodes(rm, cluster_id)
    IN  Flatten([i \in 1..Len(st) |->
            LET rt == row_tasks(rm, st[i])
            IN  Flatten([j \in 1..Len(rt) |-> TaskRows(rm, cluster_id, st[i], rt[j], size)])])

\* range(0, len(lst), 0) raises ValueError: the planner fails as soon as one
\* stage node has an edge to a task.
DrawRaises(rm, size) ==
    /\ size = 0
    /\ \E c \in 1..Len(rm.clusters) :
          LET st == stage_nodes(rm, rm.clusters[c].id)
          IN  \E i \in 1..Len(st) : row_tasks(rm, st[i]) # <<>>

\* Line 146, with every task of the Roadmap whatever its cluster.
TasksIgnoringCluster(rm, cluster_id) ==
    Ids(SelectSeq(rm.nodes, LAMBDA n : n.type = "task"))

\* Line 146.
task_nodes_in_cluster(rm, cluster_id) ==
    Ids(SelectSeq(cluster_inner_nodes(rm, cluster_id), LAMBDA n : n.type = "task"))

\* Lines 147-152 without the membership test of line 151.
DrawTaskAdjacencyAlways(rm, cluster_id) ==
    AdjacencyAlways(rm, task_nodes_in_cluster(rm, cluster_id), "task_adjacency")

\* Lines 147-152.
DrawTaskAdjacency(rm, cluster_id) ==
    Adjacency(rm, task_nodes_in_cluster(rm, cluster_id), "task_adjacency")

\* Lines 162-170 with the sub_content branch of line 166 left out.
DrawEdgeStyleNoSubRule(src_type, tgt_type) ==
    IF src_type = "method" \/ tgt_type = "method"
    THEN [style |-> "invis", arrowhead |-> "none"]
    ELSE IF src_type = "task" /\ tgt_type = "sub_content"
    THEN [style |-> "dashed", arrowhead |-> "none"]
    ELSE [style |-> "", arrowhead |-> "normal"]

\* Lines 162-170: the attributes passed to dot.edge ("" is an attribute that
\* is not passed).
DrawEdgeStyle(src_type, tgt_type) ==
    IF src_type = "method" \/ tgt_type = "method"
    THEN [style |-> "invis", arrowhead |-> "none"]
    ELSE IF src_type = "task" /\ tgt_type = "sub_content"
    THEN [style |-> "dashed", arrowhead |-> "none"]
    ELSE IF src_type = "sub_content" \/ tgt_type = "sub_content"
    THEN [style |-> "invis", arrowhead |-> "none"]
    ELSE [style |-> "", arrowhead |-> "normal"]

\* nodes_by_id.get(id).type, "" for an id that is no node.
TypeOf(rm, id) == IF id \in DOMAIN nodes_by_id(rm) THEN nodes_by_id(rm)[id].type ELSE ""

\* Lines 154-170 with every edge drawn from its target to its source.
DrawExplicitEdgesReversed(rm) ==
    [k \in 1..Len(rm.edges) |->
        LET e == rm.edges[k]
            st == DrawEdgeStyle(TypeOf(rm, e.source), TypeOf(rm, e.target))
        IN  [source |-> e.target, target |-> e.source, label |-> e.label,
             style |-> st.style, arrowhead |-> st.arrowhead, weight |-> "",
             origin |-> "explicit"]]

\* Lines 154-170.
DrawExplicitEdges(rm) ==
    [k \in 1..Len(rm.edges) |->
        LET e == rm.edges[k]
            st == DrawEdgeStyle(TypeOf(rm, e.source), TypeOf(rm, e.target))
        IN  [source |-> e.source, target |-> e.target, label |-> e.label,
             style |-> st.style, arrowhead |-> st.arrowhead, weight |-> "",
             origin |-> "explicit"]]

\* stage_order, lines 93 and 109: the stage nodes cluster by cluster.
stage_order(rm) ==
    Flatten([c \in 1..Len(rm.clusters) |-> Ids(stage_nodes(rm, rm.clusters[c].id))])

\* The Digraph draw_roadmap hands to dot.render.
draw_roadmap(rm, size) ==
    [mode |-> "stacked",
     nodes |-> Flatten([c \in 1..Len(rm.clusters) |-> DrawClusterNodes(rm, rm.clusters[c].id)]),
     rows |-> Flatten([c \in 1..Len(rm.clusters) |-> ClusterRows(rm, rm.clusters[c].id, size)]),
     ranks |-> <<>>,
     edges |-> Flatten([c \in 1..Len(rm.clusters) |-> DrawTaskAdjacency(rm, rm.clusters[c].id)])
               \o DrawExplicitEdges(rm)
               \o Adjacency(rm, stage_order(rm), "stage_adjacency")]

---------------------------------------------------------------------------
(* viz_graphviz.py: generate_beautiful_roadmap (column mode).              *)

\* Lines 224-226.
current_nodes(rm, cluster_id) ==
    LET sel == SelectSeq(rm.nodes, LAMBDA n : n.parent_cluster = cluster_id)
    IN  Sorted(sel, SortKeys(rm, sel))

NodesOfTypes(lst, types) == SelectSeq(lst, LAMBDA n : n.type \in types)

\* Lines 227-264: the node statements of one cluster.
BeautifulClusterNodes(rm, cluster_id) ==
    LET cur == current_nodes(rm, cluster_id)
        Decl(lst, shape, box) ==
            [i \in 1..Len(lst) |->
                [id |-> lst[i].id, label |-> lst[i].label, shape |-> shape,
                 group |-> "", box |-> box]]
    IN  Decl(NodesOfTypes(cur, {"stage_label", "phase"}), "box", <<>>)
        \o Decl(NodesOfTypes(cur, {"task"}), "box", cluster_id)
        \o Decl(NodesOfTypes(cur, {"sub_content"}), "note", cluster_id)
        \o Decl(NodesOfTypes(cur, {"method"}), "ellipse", cluster_id)

\* Lines 267-272.
BeautifulTaskAdjacency(rm, cluster_id) ==
    Adjacency(rm, Ids(NodesOfTypes(current_nodes(rm, cluster_id), {"task"})), "task_adjacency")

\* Lines 302-379: the first branch that matches; the last two branches can
\* never match and every other pair keeps the defaults.
BeautifulEdgeStyle(src_type, tgt_type) ==
    IF src_type = "" \/ tgt_type = "" THEN [style |-> "", arrowhead |-> ""]
    ELSE IF src_type = "method" \/ tgt_type = "method"
    THEN [style |-> "invis", arrowhead |-> "none"]
    ELSE IF src_type = "task" /\ tgt_type = "sub_content"
    THEN [style |-> "dashed", arrowhead |-> "none"]
    ELSE IF src_type = "sub_content" \/ tgt_type = "sub_content"
    THEN [style |-> "invis", arrowhead |-> "none"]
    ELSE IF src_type = "task" /\ tgt_type = "task"
    THEN [style |-> "solid", arrowhead |-> ""]
    ELSE [style |-> "", arrowhead |-> ""]

\* next((n for n in nodes if n["id"] == id), None)["type"], "" for None.
FirstTypeOf(rm, id) ==
    LET hits == {i \in 1..Len(rm.nodes) : rm.nodes[i].id = id}
    IN  IF hits = {} THEN ""
        ELSE rm.nodes[CHOOSE i \in hits : \A j \in hits : i <= j].type

\* Lines 292-381.
BeautifulExplicitEdges(rm) ==
    [k \in 1..Len(rm.edges) |->
        LET e == rm.edges[k]
            st == BeautifulEdgeStyle(FirstTypeOf(rm, e.source), FirstTypeOf(rm, e.target))
        IN  [source |-> e.source, target |-> e.target, label |-> e.label,
             style |-> st.style, arrowhead |-> st.arrowhead, weight |-> "",
             origin |-> "explicit"]]

\* Lines 388-395: the ids of one column, in node order.
all_of_type(rm, type) == Ids(SelectSeq(rm.nodes, LAMBDA n : n.type = type))

\* Lines 398-418: one rank=same subgraph per column that has a node.
RankGroups(rm) ==
    LET G(name, type) ==
            IF all_of_type(rm, type) = <<>> THEN <<>>
            ELSE << [name |-> name, members |-> all_of_type(rm, type)] >>
    IN  G("rank_stage", "stage_label") \o G("rank_task", "task")
        \o G("rank_sub", "sub_content") \o G("rank_method", "method")

\* Lines 423-430: an invisible heavy edge between the first nodes of
\* consecutive non-empty columns.
ChainEdges(rm) ==
    LET Rep(type) == IF all_of_type(rm, type) = <<>> THEN <<>>
                     ELSE << all_of_type(rm, type)[1] >>
        chain == Rep("stage_label") \o Rep("task") \o Rep("sub_content") \o Rep("method")
    IN  [i \in 1..(Len(chain) - 1) |->
            [source |-> chain[i], target |-> chain[i + 1], label |-> NoLabel,
             style |-> "invis", arrowhead |-> "", weight |-> "100", origin |-> "chain"]]

\* stage_order as if line 227 selected the stage_label nodes only.
StageOrderLabelsOnly(rm) ==
    Flatten([c \in 1..Len(rm.clusters) |->
        Ids(NodesOfTypes(current_nodes(rm, rm.clusters[c].id), {"stage_label"}))])

\* stage_order, lines 213 and 239.
beautiful_stage_order(rm) ==
    Flatten([c \in 1..Len(rm.clusters) |->
        Ids(NodesOfTypes(current_nodes(rm, rm.clusters[c].id), {"stage_label", "phase"}))])

\* The Digraph generate_beautiful_roadmap hands to dot.render.
generate_beautiful_roadmap(rm) ==
    [mode |-> "column",
     nodes |-> Flatten([c \in 1..Len(rm.clusters) |-> BeautifulClusterNodes(rm, rm.clusters[c].id)]),
     rows |-> <<>>,
     ranks |-> RankGroups(rm),
     edges |-> Flatten([c \in 1..Len(rm.clusters) |-> BeautifulTaskAdjacency(rm, rm.clusters[c].id)])
               \o BeautifulExplicitEdges(rm)
               \o ChainEdges(rm)
               \o Adjacency(rm, beautiful_stage_order(rm), "stage_adjacency")]

NoDot == [nodes |-> <<>>, rows |-> <<>>, ranks |-> <<>>, edges |-> <<>>, mode |-> "none"]

\* content = None, llm_analyzer.py line 56; a reply is a record too, its text
\* a sequence of lexical tokens.
NoContent == [is_none |-> TRUE, text |-> <<>>]

\* The parser's defaults, main.py lines 17-33: no --input, no --mock, style
\* "beautiful"; input is what main finds at the --input path, has_key
\* whether load_api_key finds a key.
DefaultArgs ==
    [mock |-> FALSE, input |-> "not_given", has_key |-> FALSE, style |-> "beautiful",
     max_methods_per_row |-> DefaultBatch]

---------------------------------------------------------------------------
(* The pipeline's steps.                                                   *)

\* Roadmap(**data), llm_analyzer.py line 102.
Construct ==
    /\ pc = "start"
    /\ IF RoadmapValid(data)
       THEN roadmap_data' = Roadmap(data) /\ pc' = "constructed"
       ELSE roadmap_data' = roadmap_data /\ pc' = "validation_error"
    /\ UNCHANGED <<data, raw_text, error, max_methods_per_row, dot, content, args, calls>>

\* roadmap_data.ensure_consistency(), main.py line 58.
EnsureConsistency ==
    /\ pc = "constructed"
    /\ pc' = IF ensure_consistency(roadmap_data) = "ok" THEN "consistent"
             ELSE "consistency_error"
    /\ calls' = Append(calls, [op |-> "ensure_consistency", roadmap |-> roadmap_data,
                               result |-> ensure_consistency(roadmap_data)])
    /\ UNCHANGED <<data, roadmap_data, raw_text, error, max_methods_per_row, dot,
                   content, args>>

\* build_fallback_roadmap(raw_text, error): the Roadmap constructor validates
\* the canned dicts like any other input.
BuildFallback ==
    /\ pc = "fallback"
    /\ IF RoadmapValid(FallbackData(raw_text, error))
       THEN roadmap_data' = Roadmap(FallbackData(raw_text, error)) /\ pc' = "constructed"
       ELSE roadmap_data' = roadmap_data /\ pc' = "validation_error"
    /\ UNCHANGED <<data, raw_text, error, max_methods_per_row, dot, content, args, calls>>

\* draw_roadmap(roadmap_data, max_methods_per_row=size), main.py line 68,
\* up to the call of dot.render.
DrawRoadmapWith(sizes) ==
    /\ pc = "consistent"
    /\ \E size \in sizes :
          /\ max_methods_per_row' = size
          /\ IF DrawRaises(roadmap_data, size)
             THEN dot' = dot /\ pc' = "planner_error"
             ELSE dot' = draw_roadmap(roadmap_data, size) /\ pc' = "planned"
    /\ UNCHANGED <<data, roadmap_data, raw_text, error, content, args, calls>>

\* The batch sizes a caller may pass.
BatchSizes == -1..MaxBatch

\* draw_roadmap with a batch size of the caller's choice.
DrawRoadmap == DrawRoadmapWith(BatchSizes)

\* draw_roadmap with the default batch size.
DrawRoadmapDefault == DrawRoadmapWith({DefaultBatch})

\* generate_beautiful_roadmap(roadmap_data), main.py line 61, up to the call
\* of dot.render.
GenerateBeautifulRoadmap ==
    /\ pc = "consistent"
    /\ dot' = generate_beautiful_roadmap(roadmap_data)
    /\ pc' = "planned"
    /\ UNCHANGED <<data, roadmap_data, raw_text, error, max_methods_per_row, content, args, calls>>

---------------------------------------------------------------------------
(* Inputs of the graph model: raw dicts with blank, padded and colliding   *)
(* strings.                                                                *)

RawTitles == {<<" ">>, <<" ", "T", " ">>}

RawClusterLists ==
    LET a == [id |-> <<"a">>, label |-> <<"A">>]
        a2 == [id |-> <<" ", "a">>, label |-> <<"A", "2">>]
        b == [id |-> <<"b">>, label |-> <<"B", " ">>]
        noid == [id |-> <<>>, label |-> <<"A">>]
        nolabel == [id |-> <<"b">>, label |-> <<" ", " ">>]
    IN  {<<>>, <<a>>, <<a, b>>, <<b, a>>, <<a, a2>>, <<a, noid>>, <<nolabel>>}

RawNodeItems ==
    {[id |-> i, label |-> <<"L">>, type |-> "task", parent_cluster |-> p] :
        i \in {<<"x">>, <<"x", " ">>, <<"y">>}, p \in {<<"a">>, <<"b", " ">>}}
    \cup {[id |-> <<" ">>, label |-> <<"L">>, type |-> "task", parent_cluster |-> <<"a">>],
          [id |-> <<"x">>, label |-> <<>>, type |-> "method", parent_cluster |-> <<"a">>],
          [id |-> <<"y">>, label |-> <<"L">>, type |-> "milestone", parent_cluster |-> <<"a">>],
          [id |-> <<"y">>, label |-> <<"L">>, type |-> "phase", parent_cluster |-> <<" ">>]}

RawEdgeLists ==
    LET E(s, t) == [source |-> s, target |-> t, label |-> <<>>]
    IN  {<<>>, <<E(<<"x">>, <<"y">>)>>, <<E(<<"y", " ">>, <<"x">>)>>,
         <<E(<<"x">>, <<"x">>)>>, <<E(<<"x">>, <<"z">>)>>, <<E(<<"z">>, <<"x">>)>>,
         <<E(<<" ">>, <<"x">>)>>, <<E(<<"x">>, <<>>)>>,
         <<E(<<"x">>, <<"y">>), E(<<"x">>, <<"y">>)>>}

InitSchema ==
    /\ \E t \in RawTitles : \E cs \in RawClusterLists :
         \E ns \in SeqsUpTo(RawNodeItems, MaxNodes) : \E es \in RawEdgeLists :
            data = [title |-> t, clusters |-> cs, nodes |-> ns, edges |-> es]
    /\ roadmap_data = NoRoadmap
    /\ pc = "start"
    /\ raw_text = <<>>
    /\ error = <<>>
    /\ max_methods_per_row = DefaultBatch
    /\ dot = NoDot
    /\ content = NoContent
    /\ args = DefaultArgs
    /\ calls = <<>>

NextSchema == Construct \/ EnsureConsistency

SpecSchema == InitSchema /\ [][NextSchema]_vars

---------------------------------------------------------------------------
(* Inputs of the fallback synthesizer: any text, and error strings of every *)
(* length up to MaxErrLen, blank ones and ones that end in whitespace       *)
(* included.                                                                *)

ErrAlphabet == <<"t", " ", "]">>

ErrorString(len, seed) == [i \in 1..len |-> ErrAlphabet[((i + seed) % 3) + 1]]

ErrorStrings == {ErrorString(len, seed) : len \in 0..MaxErrLen, seed \in 0..2}

RawTexts == {<<>>, <<"M", "o", "c", "k", " ", "D", "a", "t", "a">>}

InitFallback ==
    /\ data = NoData
    /\ roadmap_data = NoRoadmap
    /\ pc = "fallback"
    /\ raw_text \in RawTexts
    /\ error \in ErrorStrings
    /\ max_methods_per_row = DefaultBatch
    /\ dot = NoDot
    /\ content = NoContent
    /\ args = DefaultArgs
    /\ calls = <<>>

NextFallback == BuildFallback \/ EnsureConsistency

SpecFallback == InitFallback /\ [][NextFallback]_vars

---------------------------------------------------------------------------
(* Inputs of the planners: constructed Roadmaps.  Ids run against the node *)
(* order (the first node has the greatest id) and cluster ids against the  *)
(* declared order.                                                         *)

Digits == <<"1", "2", "3", "4", "5", "6", "7", "8", "9">>

PlanId(i) == <<"n", Digits[10 - i]>>

PlanClusters ==
    << [id |-> <<"c", "2">>, label |-> <<"C", "2">>],
       [id |-> <<"c", "1">>, label |-> <<"C", "1">>] >>

PlanNode(i, type, c) ==
    [id |-> PlanId(i), label |-> <<"L", Digits[i]>>, type |-> type,
     parent_cluster |-> PlanClusters[c].id]

\* The edge lists tried on n nodes: no edge, or one edge between any two.
PlanEdgeLists(n) == {<<>>} \cup {<<Edge(PlanId(a), PlanId(b))>> : a, b \in 1..n}

\* Every typing and clustering of up to PlanNodes nodes.
PlanRoadmap(n, ty, cl, es) ==
    [title |-> <<"T">>, clusters |-> PlanClusters,
     nodes |-> [i \in 1..n |-> PlanNode(i, ty[i], cl[i])],
     edges |-> es]

InitPlan ==
    /\ data = NoData
    /\ \E n \in 1..PlanNodes :
         \E ty \in [1..n -> NodeType] : \E cl \in [1..n -> 1..2] :
           \E es \in PlanEdgeLists(n) :
              roadmap_data = PlanRoadmap(n, ty, cl, es)
    /\ pc = "constructed"
    /\ raw_text = <<>>
    /\ error = <<>>
    /\ max_methods_per_row = DefaultBatch
    /\ dot = NoDot
    /\ content = NoContent
    /\ args = DefaultArgs
    /\ calls = <<>>

NextPlan == EnsureConsistency \/ DrawRoadmapDefault \/ GenerateBeautifulRoadmap

SpecPlan == InitPlan /\ [][NextPlan]_vars

\* Two clusters, each holding one stage node and one task, in every node
\* order, with any edges inside a cluster and none between the clusters.
ScenarioRoles ==
    << [kind |-> "stage", c |-> 1], [kind |-> "task", c |-> 1],
       [kind |-> "stage", c |-> 2], [kind |-> "task", c |-> 2] >>

ScenarioRoadmap(perm, st, inner) ==
    LET pos(r) == CHOOSE i \in 1..4 : perm[i] = r
        E(c) == (IF "down" \in inner[c]
                 THEN <<Edge(PlanId(pos(2 * c - 1)), PlanId(pos(2 * c)))>> ELSE <<>>)
                \o (IF "up" \in inner[c]
                    THEN <<Edge(PlanId(pos(2 * c)), PlanId(pos(2 * c - 1)))>> ELSE <<>>)
    IN  [title |-> <<"T">>, clusters |-> PlanClusters,
         nodes |-> [i \in 1..4 |->
                      PlanNode(i,
                               IF ScenarioRoles[perm[i]].kind = "task" THEN "task"
                               ELSE st[ScenarioRoles[perm[i]].c],
                               ScenarioRoles[perm[i]].c)],
         edges |-> E(1) \o E(2)]

InitScenario ==
    /\ data = NoData
    /\ \E perm \in Permutations(1..4) : \E st \in [1..2 -> StageTypes] :
         \E inner \in [1..2 -> SUBSET {"down", "up"}] :
            roadmap_data = ScenarioRoadmap(perm, st, inner)
    /\ pc = "constructed"
    /\ raw_text = <<>>
    /\ error = <<>>
    /\ max_methods_per_row = DefaultBatch
    /\ dot = NoDot
    /\ content = NoContent
    /\ args = DefaultArgs
    /\ calls = <<>>

SpecScenario == InitScenario /\ [][NextPlan]_vars

\* One cluster with a stage node, a task, a sub_content and two methods; the
\* stage node has up to two edges to the task, and the task has up to
\* MaxMethodEdges edges to the sub_content and the methods, in any order and
\* with repetitions.
RowsRoadmap(stage_edges, targets) ==
    [title |-> <<"T">>, clusters |-> PlanClusters,
     nodes |-> << PlanNode(1, "stage_label", 1), PlanNode(2, "task", 1),
                  PlanNode(3, "sub_content", 1), PlanNode(4, "method", 1),
                  PlanNode(5, "method", 1) >>,
     edges |-> [i \in 1..stage_edges |-> Edge(PlanId(1), PlanId(2))]
               \o [i \in 1..Len(targets) |-> Edge(PlanId(2), PlanId(targets[i]))]]

InitRows ==
    /\ data = NoData
    /\ \E stage_edges \in 0..2 : \E targets \in SeqsUpTo(3..5, MaxMethodEdges) :
          roadmap_data = RowsRoadmap(stage_edges, targets)
    /\ pc = "constructed"
    /\ raw_text = <<>>
    /\ error = <<>>
    /\ max_methods_per_row = DefaultBatch
    /\ dot = NoDot
    /\ content = NoContent
    /\ args = DefaultArgs
    /\ calls = <<>>

NextRows == EnsureConsistency \/ DrawRoadmap

SpecRows == InitRows /\ [][NextRows]_vars

\* Four nodes, one of each column, in two clusters, with up to MaxPlanEdges
\* edges between any two of them, labelled or not, repeated or not.
EdgeNodes ==
    << PlanNode(1, "stage_label", 1), PlanNode(2, "task", 1),
       PlanNode(3, "sub_content", 2), PlanNode(4, "method", 2) >>

EdgeLabels == {<<>>, <<"l">>}

LabelledEdges ==
    {[source |-> PlanId(a), target |-> PlanId(b), label |-> l] :
        a \in 1..Len(EdgeNodes), b \in 1..Len(EdgeNodes), l \in EdgeLabels}

InitEdges ==
    /\ data = NoData
    /\ \E es \in SeqsUpTo(LabelledEdges, MaxPlanEdges) :
          roadmap_data = [title |-> <<"T">>, clusters |-> PlanClusters,
                          nodes |-> EdgeNodes, edges |-> es]
    /\ pc = "constructed"
    /\ raw_text = <<>>
    /\ error = <<>>
    /\ max_methods_per_row = DefaultBatch
    /\ dot = NoDot
    /\ content = NoContent
    /\ args = DefaultArgs
    /\ calls = <<>>

SpecEdges == InitEdges /\ [][NextPlan]_vars

---------------------------------------------------------------------------
(* llm_analyzer.py.  The text of a reply is a sequence of lexical tokens:  *)
(* an opening fence of a json block "fence:json" and a bare fence "fence"  *)
(* (three backquotes), the braces, the comma, a blank, a letter of prose   *)
(* "p", the number "7", and the members of a JSON object                   *)
(* as one token, written with double quotes ("dq:...") or with single      *)
(* quotes ("sq:...").                                                      *)

PayloadKinds == <<"ok", "blank", "dangling", "untitled">>

DoubleQuoted == <<"dq:ok", "dq:blank", "dq:dangling", "dq:untitled">>

SingleQuoted == <<"sq:ok", "sq:blank", "sq:dangling", "sq:untitled">>

\* The dict a members token stands for: a Roadmap in padded strings, one
\* with a blank title, one with an edge to no node, one with no title key.
Payload(kind) ==
    LET cs == << [id |-> <<"c", "1">>, label |-> <<" ", "C">>] >>
        ns == << [id |-> <<"s", "1">>, label |-> <<"S">>, type |-> "stage_label",
                  parent_cluster |-> <<"c", "1", " ">>],
                 [id |-> <<" ", "t", "1">>, label |-> <<"T">>, type |-> "task",
                  parent_cluster |-> <<"c", "1">>] >>
        ok == << [source |-> <<"s", "1">>, target |-> <<"t", "1">>, label |-> <<>>] >>
        bad == << [source |-> <<"s", "1">>, target |-> <<"t", "9">>, label |-> <<>>] >>
    IN  CASE kind = "ok" ->
               [title |-> <<" ", "T">>, clusters |-> cs, nodes |-> ns, edges |-> ok]
          [] kind = "blank" ->
               [title |-> <<" ">>, clusters |-> cs, nodes |-> ns, edges |-> ok]
          [] kind = "dangling" ->
               [title |-> <<"T">>, clusters |-> cs, nodes |-> ns, edges |-> bad]
          [] kind = "untitled" ->
               [clusters |-> cs, nodes |-> ns, edges |-> ok]

IndexIn(seq, x) == CHOOSE i \in 1..Len(seq) : seq[i] = x

First(S) == CHOOSE i \in S : \A j \in S : i <= j

\* _extract_json_block, lines 40-49: the stripped inside of the first fenced
\* block (the lazy match ends at the next fence), else the text from the
\* first "{" to the last "}"; found is FALSE for None.
extract_json_block(text) ==
    LET opens == {i \in 1..Len(text) : text[i] = "fence:json"}
        closes == {j \in 1..Len(text) : text[j] \in {"fence", "fence:json"} /\ j > First(opens)}
        starts == {i \in 1..Len(text) : text[i] = "{"}
        ends == {i \in 1..Len(text) : text[i] = "}"}
    IN  IF opens # {} /\ closes # {}
        THEN [found |-> TRUE, text |-> Strip(SubSeq(text, First(opens) + 1, First(closes) - 1))]
        ELSE IF starts # {} /\ ends # {} /\ Last(ends) > First(starts)
        THEN [found |-> TRUE, text |-> SubSeq(text, First(starts), Last(ends))]
        ELSE [found |-> FALSE, text |-> <<>>]

\* _extract_json_block(content) or content, line 93: an empty block is falsy.
raw_json(text) ==
    LET block == extract_json_block(text)
    IN  IF block.found /\ block.text # <<>> THEN block.text ELSE text

\* dict(members, members, ...): a later key overrides an earlier one.
Merge(ps) ==
    [k \in UNION {DOMAIN ps[i] : i \in 1..Len(ps)} |->
        ps[Last({i \in 1..Len(ps) : k \in DOMAIN ps[i]})][k]]

\* json.loads: blanks between tokens mean nothing; a number, an empty
\* object, or an object of double-quoted members separated by commas;
\* anything else is a JSONDecodeError.
json_loads(text) ==
    LET t == SelectSeq(text, LAMBDA x : ~IsSpace(x))
        inner == SubSeq(t, 2, Len(t) - 1)
    IN  IF t = <<"7">> THEN [kind |-> "int", dict |-> <<>>]
        ELSE IF Len(t) < 2 \/ t[1] # "{" \/ t[Len(t)] # "}"
        THEN [kind |-> "JSONDecodeError", dict |-> <<>>]
        ELSE IF inner = <<>> THEN [kind |-> "dict", dict |-> <<>>]
        ELSE IF /\ Len(inner) % 2 = 1
                /\ \A i \in 1..Len(inner) :
                      IF i % 2 = 1 THEN inner[i] \in Range(DoubleQuoted)
                      ELSE inner[i] = ","
        THEN [kind |-> "dict",
              dict |-> Merge([n \in 1..((Len(inner) + 1) \div 2) |->
                                Payload(PayloadKinds[IndexIn(DoubleQuoted, inner[2 * n - 1])])])]
        ELSE [kind |-> "JSONDecodeError", dict |-> <<>>]

\* Lines 97-98: every single quote becomes a double quote, and a comma
\* before the closing brace at the end of the text is dropped.
cleaned(raw) ==
    LET q == [i \in 1..Len(raw) |->
                IF raw[i] \in Range(SingleQuoted)
                THEN DoubleQuoted[IndexIn(SingleQuoted, raw[i])] ELSE raw[i]]
        solid == {i \in 1..Len(q) : ~IsSpace(q[i])}
        before == {i \in solid : i < Last(solid)}
    IN  IF solid # {} /\ q[Last(solid)] = "}" /\ before # {} /\ q[Last(before)] = ","
        THEN SubSeq(q, 1, Last(before) - 1) \o <<"}">>
        ELSE q

\* Lines 93-99: re.search(pattern, None) raises TypeError; the first
\* json.loads is tried, the one in the handler is not.
Loads(reply) ==
    IF reply.is_none THEN [kind |-> "TypeError", dict |-> <<>>]
    ELSE LET first == json_loads(raw_json(reply.text))
         IN  IF first.kind # "JSONDecodeError" THEN first
             ELSE json_loads(cleaned(raw_json(reply.text)))

RequiredFields == {"title", "clusters", "nodes", "edges"}

\* Lines 101-106: what the last try block does with the parsed value.
\* Roadmap(**data) raises TypeError for a value that is no mapping, and the
\* handler catches ValidationError and ValueError only.
AnalyzeOutcome(parsed) ==
    IF parsed.kind # "dict" THEN "exception"
    ELSE IF ~(RequiredFields \subseteq DOMAIN parsed.dict) THEN "fallback"
    ELSE IF ~RoadmapValid(parsed.dict) THEN "fallback"
    ELSE IF ensure_consistency(Roadmap(parsed.dict)) # "ok" THEN "fallback"
    ELSE "return"

\* str(e) of a caught exception: nothing, or more than the title keeps.
AnalyzeErrors == {ErrorString(0, 0), ErrorString(MaxErrLen, 1)}

\* client.chat.completions.create, lines 58-70: a reply, or any exception.
CallSdkWith(replies) ==
    /\ pc = "sdk_call"
    /\ \/ \E c \in replies : content' = c /\ pc' = "have_content"
       \/ content' = content /\ pc' = "requests_call"
    /\ UNCHANGED <<data, roadmap_data, raw_text, error, max_methods_per_row, dot, args, calls>>

\* requests.post and the reply's unpacking, lines 73-91: a reply, or any
\* exception, which ends in build_fallback_roadmap(text, error=str(e)).
CallRequestsWith(replies) ==
    /\ pc = "requests_call"
    /\ \/ \E c \in replies : content' = c /\ pc' = "have_content" /\ error' = error
       \/ \E e \in AnalyzeErrors : error' = e /\ pc' = "fallback" /\ content' = content
    /\ UNCHANGED <<data, roadmap_data, raw_text, max_methods_per_row, dot, args, calls>>

\* Lines 93-106: parse, construct, check; the Roadmap is returned, the
\* fallback is built, or an exception leaves analyze_structure.
ParseAndValidate ==
    /\ pc = "have_content"
    /\ LET parsed == Loads(content)
           outcome == AnalyzeOutcome(parsed)
       IN  IF outcome = "exception"
           THEN pc' = "exception" /\ UNCHANGED <<data, roadmap_data, error>>
           ELSE IF outcome = "fallback"
           THEN /\ \E e \in AnalyzeErrors : error' = e
                /\ pc' = "fallback"
                /\ data' = parsed.dict
                /\ roadmap_data' = roadmap_data
           ELSE /\ roadmap_data' = Roadmap(parsed.dict)
                /\ pc' = "constructed"
                /\ data' = parsed.dict
                /\ error' = error
    /\ UNCHANGED <<raw_text, max_methods_per_row, dot, content, args, calls>>

---------------------------------------------------------------------------
(* Replies of the API: None, and every token sequence up to MaxReplyLen,   *)
(* bare, inside braces, inside a fenced block and inside prose.            *)

ReplyTokens ==
    {"fence:json", "fence", "{", "}", ",", " ", "p", "7", "sq:ok"} \cup Range(DoubleQuoted)

ReplyAffixes ==
    { <<<<>>, <<>>>>, <<<<"{">>, <<"}">>>>, <<<<"fence:json">>, <<"fence">>>>,
      <<<<"fence:json", "{">>, <<"}", " ", "fence">>>>, <<<<"p", "{">>, <<"}", "p">>>> }

Replies ==
    {NoContent} \cup
    {[is_none |-> FALSE, text |-> a[1] \o s \o a[2]] :
        s \in SeqsUpTo(ReplyTokens, MaxReplyLen), a \in ReplyAffixes}

CallSdk == CallSdkWith(Replies)

CallRequests == CallRequestsWith(Replies)

InitAnalyze ==
    /\ data = NoData
    /\ roadmap_data = NoRoadmap
    /\ pc = "sdk_call"
    /\ raw_text \in RawTexts
    /\ error = <<>>
    /\ max_methods_per_row = DefaultBatch
    /\ dot = NoDot
    /\ content = NoContent
    /\ args = [DefaultArgs EXCEPT !.input = "ok", !.has_key = TRUE]
    /\ calls = <<>>

NextAnalyze == CallSdk \/ CallRequests \/ ParseAndValidate \/ BuildFallback

SpecAnalyze == InitAnalyze /\ [][NextAnalyze]_vars

---------------------------------------------------------------------------
(* main.py.  calls records what main calls after it has a Roadmap.         *)

MockText == <<"M", "o", "c", "k", " ", "D", "a", "t", "a">>

\* Lines 40-47: the mock path goes to build_fallback_roadmap("Mock Data");
\* the other path raises when --input is not given, names no file or names
\* a file read_docx cannot read, and else reads the text.
MainLoad ==
    /\ pc = "main"
    /\ IF args.mock
       THEN raw_text' = MockText /\ pc' = "fallback"
       ELSE IF args.input # "ok"
       THEN raw_text' = raw_text /\ pc' = "exception"
       ELSE (\E t \in RawTexts : raw_text' = t) /\ pc' = "analyze"
    /\ UNCHANGED <<data, roadmap_data, error, max_methods_per_row, dot, content, args, calls>>

\* load_api_key, llm_analyzer.py line 54: the key, or RuntimeError.
LoadApiKey ==
    /\ pc = "analyze"
    /\ pc' = IF args.has_key THEN "sdk_call" ELSE "exception"
    /\ UNCHANGED <<data, roadmap_data, raw_text, error, max_methods_per_row, dot, content,
                   args, calls>>

\* Lines 59-78 with the test of line 58's result left out: the planner of
\* the default style is started on a Roadmap that was not checked.
MainPlanUnchecked ==
    /\ pc = "constructed"
    /\ dot' = generate_beautiful_roadmap(roadmap_data)
    /\ pc' = "planned"
    /\ UNCHANGED <<data, roadmap_data, raw_text, error, max_methods_per_row, content, args, calls>>

\* Lines 59-78: the planner of the chosen style, once line 58 has returned.
MainPlan ==
    IF args.style = "beautiful" THEN GenerateBeautifulRoadmap
    ELSE DrawRoadmapWith({args.max_methods_per_row})

\* dot.render, viz_graphviz.py lines 180 and 439: the artifact's path, or an
\* error of the external renderer.
Render ==
    /\ pc = "planned"
    /\ \/ /\ pc' = "rendered"
          /\ calls' = Append(calls, [op |-> "render", roadmap |-> roadmap_data,
                                     result |-> "outfile"])
       \/ /\ pc' = "exception"
          /\ calls' = Append(calls, [op |-> "render", roadmap |-> roadmap_data,
                                     result |-> "error"])
    /\ UNCHANGED <<data, roadmap_data, raw_text, error, max_methods_per_row, dot, content, args>>

\* print(outpath), line 79.
PrintPath ==
    /\ pc = "rendered"
    /\ pc' = "done"
    /\ calls' = Append(calls, [op |-> "print", roadmap |-> roadmap_data, result |-> "outfile"])
    /\ UNCHANGED <<data, roadmap_data, raw_text, error, max_methods_per_row, dot, content, args>>

\* The replies tried in runs of main: None, prose, and an object of each kind.
MainReplies ==
    {NoContent, [is_none |-> FALSE, text |-> <<"p">>]}
    \cup {[is_none |-> FALSE, text |-> <<"{", DoubleQuoted[k], "}">>] : k \in 1..Len(DoubleQuoted)}

MainCallSdk == CallSdkWith(MainReplies)

MainCallRequests == CallRequestsWith(MainReplies)

InputStates == {"not_given", "missing", "unreadable", "ok"}

InitMain ==
    /\ data = NoData
    /\ roadmap_data = NoRoadmap
    /\ pc = "main"
    /\ raw_text = <<>>
    /\ error = <<>>
    /\ max_methods_per_row = DefaultBatch
    /\ dot = NoDot
    /\ content = NoContent
    /\ \E mock \in BOOLEAN : \E input \in InputStates : \E has_key \in BOOLEAN :
         \E style \in {"beautiful", "classic"} : \E size \in BatchSizes :
            args = [mock |-> mock, input |-> input, has_key |-> has_key, style |-> style,
                    max_methods_per_row |-> size]
    /\ calls = <<>>

NextMain ==
    \/ MainLoad \/ LoadApiKey \/ MainCallSdk \/ MainCallRequests \/ ParseAndValidate
    \/ BuildFallback \/ EnsureConsistency \/ MainPlan \/ Render \/ PrintPath

SpecMain == InitMain /\ [][NextMain]_vars

---------------------------------------------------------------------------
(* Properties of the graph model (SpecSchema).                             *)

Min(a, b) == IF a < b THEN a ELSE b

NodeIdsOf(rm) == {rm.nodes[i].id : i \in 1..Len(rm.nodes)}

ClusterIdsOf(rm) == {rm.clusters[i].id : i \in 1..Len(rm.clusters)}

GlobalInvariants(rm) ==
    /\ Len(rm.clusters) >= 1
    /\ Len(rm.nodes) >= 1
    /\ \A i, j \in 1..Len(rm.clusters) : i # j => rm.clusters[i].id # rm.clusters[j].id
    /\ \A i, j \in 1..Len(rm.nodes) : i # j => rm.nodes[i].id # rm.nodes[j].id
    /\ \A k \in 1..Len(rm.edges) :
          /\ \E i \in 1..Len(rm.nodes) : rm.nodes[i].id = rm.edges[k].source
          /\ \E i \in 1..Len(rm.nodes) : rm.nodes[i].id = rm.edges[k].target
          /\ rm.edges[k].source # <<>>
          /\ rm.edges[k].target # <<>>
    /\ \A i \in 1..Len(rm.nodes) :
          /\ \E c \in 1..Len(rm.clusters) : rm.clusters[c].id = rm.nodes[i].parent_cluster
          /\ rm.nodes[i].id # <<>>
          /\ rm.nodes[i].label # <<>>
    /\ \A c \in 1..Len(rm.clusters) : rm.clusters[c].id # <<>> /\ rm.clusters[c].label # <<>>

\* C1: a Roadmap that was constructed and on which ensure_consistency returned
\* has at least one cluster and one node, pairwise distinct cluster ids and
\* node ids, only resolvable edge endpoints and parent_cluster references, and
\* no empty id, cluster or node label, or edge endpoint.
C1_ValidatedRoadmapInvariants == pc = "consistent" => GlobalInvariants(roadmap_data)

\* A validated Roadmap with two clusters, two nodes and an edge whose raw id
\* was padded with whitespace.
C1_Witness ==
    /\ pc = "consistent"
    /\ Len(roadmap_data.clusters) = 2
    /\ Len(roadmap_data.nodes) = 2
    /\ Len(roadmap_data.edges) >= 1
    /\ \E i \in 1..Len(data.nodes) : data.nodes[i].id # roadmap_data.nodes[i].id

ConsistencyViolated(rm) ==
    \/ \E i, j \in 1..Len(rm.nodes) : i < j /\ rm.nodes[i].id = rm.nodes[j].id
    \/ \E k \in 1..Len(rm.edges) :
          \/ ~\E i \in 1..Len(rm.nodes) : rm.nodes[i].id = rm.edges[k].source
          \/ ~\E i \in 1..Len(rm.nodes) : rm.nodes[i].id = rm.edges[k].target
    \/ \E i \in 1..Len(rm.nodes) :
          ~\E c \in 1..Len(rm.clusters) : rm.clusters[c].id = rm.nodes[i].parent_cluster

\* C2: the step out of a constructed Roadmap ends in a consistency error
\* exactly when two nodes share an id, an edge endpoint is no node id, or a
\* parent_cluster is no declared cluster id; otherwise it returns; either way
\* the Roadmap is what it was.
C2_EnsureConsistencyExact ==
    [][pc = "constructed" =>
          /\ roadmap_data' = roadmap_data
          /\ pc' \in {"consistent", "consistency_error"}
          /\ (pc' = "consistency_error") <=> ConsistencyViolated(roadmap_data)]_vars

\* ensure_consistency raised for a dangling edge alone: the node ids are
\* distinct and every parent_cluster is declared.
C2_Witness ==
    /\ pc = "consistency_error"
    /\ Cardinality(NodeIdsOf(roadmap_data)) = Len(roadmap_data.nodes)
    /\ \A i \in 1..Len(roadmap_data.nodes) :
          roadmap_data.nodes[i].parent_cluster \in ClusterIdsOf(roadmap_data)
    /\ \E k \in 1..Len(roadmap_data.edges) :
          roadmap_data.edges[k].target \notin NodeIdsOf(roadmap_data)

---------------------------------------------------------------------------
(* Properties of the fallback synthesizer (SpecFallback).                  *)

NodesOfType(rm, c, ty) ==
    {i \in 1..Len(rm.nodes) : rm.nodes[i].parent_cluster = rm.clusters[c].id /\ rm.nodes[i].type = ty}

HasEdge(rm, a, b) == \E k \in 1..Len(rm.edges) : rm.edges[k].source = a /\ rm.edges[k].target = b

TheNode(rm, c, ty) == rm.nodes[CHOOSE i \in NodesOfType(rm, c, ty) : TRUE].id

FallbackTopology(rm) ==
    /\ Len(rm.clusters) = 3
    /\ Len(rm.nodes) = 12
    /\ Len(rm.edges) = 8
    /\ \A c \in 1..3 : \A ty \in {"stage_label", "task", "sub_content", "method"} :
          Cardinality(NodesOfType(rm, c, ty)) = 1
    /\ \A c \in 1..2 : HasEdge(rm, TheNode(rm, c, "task"), TheNode(rm, c + 1, "task"))
    /\ \A c \in 1..3 :
          /\ HasEdge(rm, TheNode(rm, c, "task"), TheNode(rm, c, "sub_content"))
          /\ HasEdge(rm, TheNode(rm, c, "sub_content"), TheNode(rm, c, "method"))

\* C3: whatever raw_text and error are, build_fallback_roadmap returns a
\* Roadmap (construction does not fail) with 3 clusters, 12 nodes and 8 edges,
\* one node of each of the four types per cluster, the chain t1->t2->t3, an
\* edge task->sub_content and sub_content->method inside every cluster; and
\* ensure_consistency accepts it.
C3_FallbackTopology ==
    /\ pc \notin {"validation_error", "consistency_error"}
    /\ pc \in {"constructed", "consistent"} =>
          FallbackTopology(roadmap_data) /\ ~ConsistencyViolated(roadmap_data)

\* The fallback for an error longer than the truncation length has passed
\* ensure_consistency.
C3_Witness == pc = "consistent" /\ Len(error) > TruncLen /\ raw_text # <<>>

IsPrefix(p, v) == Len(p) <= Len(v) /\ \A i \in 1..Len(p) : p[i] = v[i]

\* C4: the title is a fixed text followed, for a non-empty error, by a fixed
\* opening, the prefix of the error of length min(20, len(error)) and a fixed
\* closing; for the empty error it is the fixed text alone.
C4_TitleEmbedsErrorPrefix ==
    pc \in {"constructed", "consistent"} =>
        IF error = <<>> THEN roadmap_data.title = FallbackTitleBase
        ELSE LET n == Min(TruncLen, Len(error))
                 m == Len(FallbackTitleBase) + Len(ErrorOpen)
                 t == roadmap_data.title
             IN  /\ Len(t) = m + n + Len(ErrorClose)
                 /\ SubSeq(t, 1, m) = FallbackTitleBase \o ErrorOpen
                 /\ IsPrefix(SubSeq(t, m + 1, m + n), error)
                 /\ SubSeq(t, m + n + 1, Len(t)) = ErrorClose

\* A fallback title built from an error of more than 20 characters.
C4_Witness ==
    /\ pc = "constructed"
    /\ Len(error) > TruncLen
    /\ Len(roadmap_data.title) = Len(FallbackTitleBase) + Len(ErrorOpen) + TruncLen + Len(ErrorClose)

---------------------------------------------------------------------------
(* Properties of the planners.                                             *)

\* The position of the node with this id (ids are distinct once validated).
IdxOf(rm, id) == CHOOSE i \in 1..Len(rm.nodes) : rm.nodes[i].id = id

TypeOfId(rm, id) == rm.nodes[IdxOf(rm, id)].type

\* The position of the cluster a node belongs to.
ClusterPos(rm, i) == CHOOSE c \in 1..Len(rm.clusters) : rm.clusters[c].id = rm.nodes[i].parent_cluster

\* Graphviz's defaults for attributes that are not passed.
RenderedStyle(e) == IF e.style = "" THEN "solid" ELSE e.style

RenderedArrow(e) == IF e.arrowhead = "" THEN "normal" ELSE e.arrowhead

EdgesFrom(d, origins) == SelectSeq(d.edges, LAMBDA e : e.origin \in origins)

\* The precedence table: the style, and the arrowhead where the table names one.
TableStyle(s, t) ==
    IF s = "method" \/ t = "method" THEN <<"invis", "none">>
    ELSE IF s = "task" /\ t = "sub_content" THEN <<"dashed", "none">>
    ELSE IF s = "sub_content" \/ t = "sub_content" THEN <<"invis", "any">>
    ELSE <<"solid", "normal">>

\* C5: in both modes the k-th explicit edge emitted is the k-th edge of the
\* Roadmap and its rendered style is the one the precedence table gives for
\* the types of its endpoints: method -> invisible, no arrowhead;
\* task->sub_content -> dashed, no arrowhead; other sub_content -> invisible;
\* anything else -> solid with a normal arrowhead.
C5_EdgeStyleByTypes ==
    pc = "planned" =>
        LET ex == EdgesFrom(dot, {"explicit"})
        IN  /\ Len(ex) = Len(roadmap_data.edges)
            /\ \A k \in 1..Len(ex) :
                  LET want == TableStyle(TypeOfId(roadmap_data, roadmap_data.edges[k].source),
                                         TypeOfId(roadmap_data, roadmap_data.edges[k].target))
                  IN  /\ ex[k].source = roadmap_data.edges[k].source
                      /\ ex[k].target = roadmap_data.edges[k].target
                      /\ RenderedStyle(ex[k]) = want[1]
                      /\ want[2] # "any" => RenderedArrow(ex[k]) = want[2]

\* Stacked mode has emitted an edge from a sub_content to a task, invisible
\* by the third rule.
C5_Witness ==
    /\ pc = "planned"
    /\ dot.mode = "stacked"
    /\ \E k \in 1..Len(dot.edges) :
          /\ dot.edges[k].origin = "explicit"
          /\ TypeOfId(roadmap_data, dot.edges[k].source) = "sub_content"
          /\ TypeOfId(roadmap_data, dot.edges[k].target) = "task"
          /\ dot.edges[k].style = "invis"

IsStage(rm, i) == rm.nodes[i].type \in StageTypes

IsTask(rm, i) == rm.nodes[i].type = "task"

\* Rendering order of the stage nodes: clusters as declared, then node order.
StageBefore(rm, i, j) ==
    \/ ClusterPos(rm, i) < ClusterPos(rm, j)
    \/ ClusterPos(rm, i) = ClusterPos(rm, j) /\ i < j

ConsecutiveStages(rm, i, j) ==
    /\ IsStage(rm, i) /\ IsStage(rm, j) /\ StageBefore(rm, i, j)
    /\ ~\E k \in 1..Len(rm.nodes) : IsStage(rm, k) /\ StageBefore(rm, i, k) /\ StageBefore(rm, k, j)

ConsecutiveTasks(rm, i, j) ==
    /\ IsTask(rm, i) /\ IsTask(rm, j) /\ i < j
    /\ rm.nodes[i].parent_cluster = rm.nodes[j].parent_cluster
    /\ ~\E k \in (i + 1)..(j - 1) :
          IsTask(rm, k) /\ rm.nodes[k].parent_cluster = rm.nodes[i].parent_cluster

ExplicitPairs(rm) == {<<rm.edges[k].source, rm.edges[k].target>> : k \in 1..Len(rm.edges)}

AdjacentPairs(rm) ==
    {<<rm.nodes[i].id, rm.nodes[j].id>> : i, j \in 1..Len(rm.nodes)}
    \cap {pr \in {<<rm.nodes[i].id, rm.nodes[j].id>> : i, j \in 1..Len(rm.nodes)} :
            \E i, j \in 1..Len(rm.nodes) :
               /\ pr = <<rm.nodes[i].id, rm.nodes[j].id>>
               /\ ConsecutiveTasks(rm, i, j) \/ ConsecutiveStages(rm, i, j)}

\* C6: in both modes the synthetic adjacency edges are exactly the pairs that
\* are consecutive tasks of one cluster or consecutive stage nodes in
\* rendering order and are no (source, target) of an explicit edge; each is
\* solid with a normal arrowhead and is emitted once.
C6_SyntheticAdjacencyExact ==
    pc = "planned" =>
        LET syn == EdgesFrom(dot, {"task_adjacency", "stage_adjacency"})
            want == AdjacentPairs(roadmap_data) \ ExplicitPairs(roadmap_data)
        IN  /\ {<<syn[k].source, syn[k].target>> : k \in 1..Len(syn)} = want
            /\ Len(syn) = Cardinality(want)
            /\ \A k \in 1..Len(syn) :
                  /\ syn[k].style = "solid" /\ syn[k].arrowhead = "normal"
                  /\ <<syn[k].source, syn[k].target>> \notin ExplicitPairs(roadmap_data)

\* One adjacent pair is an explicit edge and is not synthesized, while another
\* adjacent pair is.
C6_Witness ==
    /\ pc = "planned"
    /\ AdjacentPairs(roadmap_data) \cap ExplicitPairs(roadmap_data) # {}
    /\ EdgesFrom(dot, {"task_adjacency", "stage_adjacency"}) # <<>>

\* The task and the stage node of the c-th declared cluster (Scenario B).
TaskOf(rm, c) ==
    rm.nodes[CHOOSE i \in 1..Len(rm.nodes) : IsTask(rm, i) /\ ClusterPos(rm, i) = c].id

StageOf(rm, c) ==
    rm.nodes[CHOOSE i \in 1..Len(rm.nodes) : IsStage(rm, i) /\ ClusterPos(rm, i) = c].id

SolidArrowed(d, origins, a, b) ==
    {k \in 1..Len(d.edges) :
        /\ d.edges[k].origin \in origins
        /\ d.edges[k].source = a /\ d.edges[k].target = b
        /\ d.edges[k].style = "solid" /\ d.edges[k].arrowhead = "normal"}

Synthetic == {"task_adjacency", "stage_adjacency", "chain"}

\* C7 as stated: with two clusters of one stage label and one task each and
\* no edge between the clusters, exactly one solid arrowed edge is synthesized
\* from the first cluster's task to the second cluster's task, and exactly one
\* from the first stage label to the second.
C7_ScenarioB_AsStated ==
    pc = "planned" =>
        /\ Cardinality(SolidArrowed(dot, Synthetic, TaskOf(roadmap_data, 1), TaskOf(roadmap_data, 2))) = 1
        /\ Cardinality(SolidArrowed(dot, Synthetic, StageOf(roadmap_data, 1), StageOf(roadmap_data, 2))) = 1

\* C7 amended: in that Roadmap no edge between the two tasks is synthesized
\* in either direction (task adjacency is synthesized inside a cluster only),
\* and exactly one solid arrowed edge is synthesized between the stage
\* labels, from the first cluster's to the second cluster's.
C7_ScenarioB_Amended ==
    pc = "planned" =>
        /\ \A k \in 1..Len(dot.edges) :
              ~({dot.edges[k].source, dot.edges[k].target}
                  = {TaskOf(roadmap_data, 1), TaskOf(roadmap_data, 2)})
        /\ EdgesFrom(dot, {"task_adjacency"}) = <<>>
        /\ Cardinality(SolidArrowed(dot, Synthetic, StageOf(roadmap_data, 1), StageOf(roadmap_data, 2))) = 1
        /\ Len(EdgesFrom(dot, {"stage_adjacency"})) = 1

\* Column mode has planned a Scenario B Roadmap whose second cluster's task
\* comes first in the node sequence.
C7_Witness ==
    /\ pc = "planned"
    /\ dot.mode = "column"
    /\ IdxOf(roadmap_data, TaskOf(roadmap_data, 2)) < IdxOf(roadmap_data, TaskOf(roadmap_data, 1))
    /\ Len(EdgesFrom(dot, {"stage_adjacency"})) = 1

Column(type) ==
    CASE type \in StageTypes -> 1
      [] type = "task" -> 2
      [] type = "sub_content" -> 3
      [] type = "method" -> 4

RankOfColumn == <<"rank_stage", "rank_task", "rank_sub", "rank_method">>

\* C8: every node has the column of its type, phase sharing stage_label's:
\* in stacked mode two nodes carry the same group attribute exactly when
\* their types have the same column; in column mode a node is listed in a
\* rank group exactly when the group is that of its type's column, and that
\* group exists.
C8_ColumnPurity ==
    pc = "planned" =>
        /\ dot.mode = "stacked" =>
              \A a, b \in 1..Len(dot.nodes) :
                  (dot.nodes[a].group = dot.nodes[b].group)
                     <=> (Column(TypeOfId(roadmap_data, dot.nodes[a].id))
                            = Column(TypeOfId(roadmap_data, dot.nodes[b].id)))
        /\ dot.mode = "column" =>
              \A i \in 1..Len(roadmap_data.nodes) :
                  /\ \E r \in 1..Len(dot.ranks) :
                        dot.ranks[r].name = RankOfColumn[Column(roadmap_data.nodes[i].type)]
                  /\ \A r \in 1..Len(dot.ranks) :
                        (roadmap_data.nodes[i].id \in Range(dot.ranks[r].members))
                           <=> (dot.ranks[r].name = RankOfColumn[Column(roadmap_data.nodes[i].type)])

\* C9: in both modes every node is declared once; two declared nodes of the
\* same cluster and type stand in the order of the node sequence; a task
\* adjacency edge runs from the earlier to the later node; and every rank
\* group of column mode lists its members in node-sequence order.
C9_SourceOrderPreserved ==
    pc = "planned" =>
        /\ Len(dot.nodes) = Len(roadmap_data.nodes)
        /\ {dot.nodes[a].id : a \in 1..Len(dot.nodes)} = NodeIdsOf(roadmap_data)
        /\ \A a, b \in 1..Len(dot.nodes) :
              LET i == IdxOf(roadmap_data, dot.nodes[a].id)
                  j == IdxOf(roadmap_data, dot.nodes[b].id)
              IN  (/\ a < b
                   /\ roadmap_data.nodes[i].type = roadmap_data.nodes[j].type
                   /\ roadmap_data.nodes[i].parent_cluster = roadmap_data.nodes[j].parent_cluster)
                  => i < j
        /\ \A k \in 1..Len(dot.edges) :
              dot.edges[k].origin = "task_adjacency" =>
                  IdxOf(roadmap_data, dot.edges[k].source) < IdxOf(roadmap_data, dot.edges[k].target)
        /\ \A r \in 1..Len(dot.ranks) :
              \A a, b \in 1..Len(dot.ranks[r].members) :
                  a < b => IdxOf(roadmap_data, dot.ranks[r].members[a])
                             < IdxOf(roadmap_data, dot.ranks[r].members[b])

\* Stacked mode has declared three stage nodes of one cluster.
C9_Witness ==
    /\ pc = "planned"
    /\ dot.mode = "stacked"
    /\ Len(roadmap_data.nodes) = 3
    /\ \A i \in 1..3 : roadmap_data.nodes[i].type = "stage_label"
                        /\ roadmap_data.nodes[i].parent_cluster = roadmap_data.clusters[2].id

\* The targets of t's edges to method nodes, in edge order.
MethodTargets(rm, t) ==
    LET ks == SelectSeq([k \in 1..Len(rm.edges) |-> k],
                        LAMBDA k : rm.edges[k].source = t
                                   /\ TypeOfId(rm, rm.edges[k].target) = "method")
    IN  [n \in 1..Len(ks) |-> rm.edges[ks[n]].target]

RowMethods(row) == [j \in 1..(Len(row.members) - 2) |-> row.members[j + 2].id]

Proxies(row) ==
    {j \in 1..Len(row.members) :
        /\ row.members[j].kind = "proxy" /\ row.members[j].style = "invis"
        /\ row.members[j].width = "0" /\ row.members[j].height = "0"}

CeilDiv(m, k) == (m + k - 1) \div k

\* C10: with a batch size K >= 1, each time rows are generated for a task
\* (once per edge from a stage node to the task) there are ceil(M/K) rows for
\* M >= 1 method edges and one empty row for M = 0; every row but the last
\* holds K methods and the last at most K; the rows in order list the method
\* targets in edge order; each row holds exactly one zero-size invisible proxy.
C10_RowChunking ==
    (pc = "planned" /\ dot.mode = "stacked" /\ max_methods_per_row >= 1) =>
        \A pi, ti \in 1..Len(roadmap_data.nodes) :
            LET p == roadmap_data.nodes[pi].id
                t == roadmap_data.nodes[ti].id
                K == max_methods_per_row
                tg == MethodTargets(roadmap_data, t)
                M == Len(tg)
                R == IF M = 0 THEN 1 ELSE CeilDiv(M, K)
                G == Cardinality({k \in 1..Len(roadmap_data.edges) :
                        roadmap_data.edges[k].source = p /\ roadmap_data.edges[k].target = t})
                rows == SelectSeq(dot.rows, LAMBDA r : r.p = p /\ r.t = t)
            IN  (IsStage(roadmap_data, pi) /\ IsTask(roadmap_data, ti)) =>
                    /\ Len(rows) = G * R
                    /\ \A g \in 0..(G - 1) :
                          /\ \A k \in 1..R :
                                /\ rows[g * R + k].idx = k - 1
                                /\ Len(RowMethods(rows[g * R + k])) <= K
                                /\ k < R => Len(RowMethods(rows[g * R + k])) = K
                                /\ Cardinality(Proxies(rows[g * R + k])) = 1
                          /\ Flatten([k \in 1..R |-> RowMethods(rows[g * R + k])]) = tg

\* Three method edges in batches of two: a full row and a last row of one.
C10_Witness ==
    /\ pc = "planned"
    /\ max_methods_per_row = 2
    /\ Len(dot.rows) = 2
    /\ Len(RowMethods(dot.rows[1])) = 2
    /\ Len(RowMethods(dot.rows[2])) = 1

---------------------------------------------------------------------------
(* Properties of the chain, the boxes and the rows (SpecPlan and the       *)
(* specifications after it).                                               *)

\* The columns that hold a node, in the fixed order.
NonEmptyColumns(rm) ==
    SelectSeq(<<1, 2, 3, 4>>,
              LAMBDA c : \E i \in 1..Len(rm.nodes) : Column(rm.nodes[i].type) = c)

\* C11: in each layout mode the plan holds a chain of invisible edges of
\* weight 100, one less than there are non-empty columns (phase nodes making
\* the stage column non-empty); the chain's i-th edge runs from a node of the
\* i-th non-empty column to a node of the next, and each edge starts where
\* the one before it ends.
C11_ColumnChain ==
    pc = "planned" =>
        LET ch == EdgesFrom(dot, {"chain"})
            cols == NonEmptyColumns(roadmap_data)
        IN  /\ Len(ch) = Len(cols) - 1
            /\ \A i \in 1..Len(ch) :
                  /\ ch[i].style = "invis"
                  /\ ch[i].weight = "100"
                  /\ Column(TypeOfId(roadmap_data, ch[i].source)) = cols[i]
                  /\ Column(TypeOfId(roadmap_data, ch[i].target)) = cols[i + 1]
                  /\ i > 1 => ch[i].source = ch[i - 1].target

\* The ids of the Roadmap nodes declared inside the box of a cluster: by a
\* node statement of the box itself or of a row nested in it.
BoxMembers(d, cluster_id) ==
    {d.nodes[i].id : i \in {j \in 1..Len(d.nodes) : d.nodes[j].box = cluster_id}}
    \cup UNION {{d.rows[r].members[j].id :
                    j \in {m \in 1..Len(d.rows[r].members) : d.rows[r].members[m].kind = "node"}} :
                r \in {q \in 1..Len(d.rows) : d.rows[q].cluster = cluster_id}}

\* The ids of the task, sub_content and method nodes of a cluster.
InnerMembers(rm, cluster_id) ==
    {rm.nodes[i].id : i \in {j \in 1..Len(rm.nodes) :
        rm.nodes[j].parent_cluster = cluster_id /\ rm.nodes[j].type \notin StageTypes}}

\* C12: in both modes the Roadmap nodes declared inside a cluster's box are
\* exactly the task, sub_content and method nodes of that cluster, and every
\* such node is declared inside one box only, whatever the edges.
C12_BoxMembership ==
    pc = "planned" =>
        /\ \A c \in 1..Len(roadmap_data.clusters) :
              BoxMembers(dot, roadmap_data.clusters[c].id)
                 = InnerMembers(roadmap_data, roadmap_data.clusters[c].id)
        /\ \A i \in 1..Len(roadmap_data.nodes) :
              roadmap_data.nodes[i].type \notin StageTypes =>
                 Cardinality({c \in 1..Len(roadmap_data.clusters) :
                    roadmap_data.nodes[i].id \in BoxMembers(dot, roadmap_data.clusters[c].id)}) = 1

\* C13: on a Roadmap that passed ensure_consistency, whatever columns are
\* empty and whatever the batch size, a planner that was started reaches its
\* render call: it never ends in an error.
C13_PlannersNeverRaise ==
    pc # "planner_error"

\* C14: once the API key is there, analyze_structure never ends in an
\* exception, and what it returns is the Roadmap the reply describes, checked
\* and consistent, or else the fallback Roadmap of the text.
C14_FailuresEndInFallback ==
    /\ pc # "exception"
    /\ pc = "constructed" =>
          \/ roadmap_data = Roadmap(FallbackData(raw_text, error))
          \/ /\ ~content.is_none
             /\ Loads(content).kind = "dict"
             /\ roadmap_data = Roadmap(Loads(content).dict)
             /\ ensure_consistency(roadmap_data) = "ok"

\* C15: in stacked mode every task with an edge to a method node has a row
\* in its cluster's box, with or without an edge from a stage node to the
\* task; and a Roadmap of the fallback's shape has exactly one row per task.
C15_RowsForEveryTask ==
    (pc = "planned" /\ dot.mode = "stacked") =>
        /\ \A i \in 1..Len(roadmap_data.nodes) :
              (IsTask(roadmap_data, i)
                 /\ MethodTargets(roadmap_data, roadmap_data.nodes[i].id) # <<>>)
              => \E r \in 1..Len(dot.rows) :
                    /\ dot.rows[r].t = roadmap_data.nodes[i].id
                    /\ dot.rows[r].cluster = roadmap_data.nodes[i].parent_cluster
        /\ FallbackTopology(roadmap_data) =>
              \A i \in 1..Len(roadmap_data.nodes) :
                  IsTask(roadmap_data, i) =>
                     Cardinality({r \in 1..Len(dot.rows) :
                                     dot.rows[r].t = roadmap_data.nodes[i].id}) = 1

\* The rank=same groups of a plan, as sets of member ids: the rows of stacked
\* mode and the column groups of column mode.
RankSameGroups(d) ==
    [r \in 1..Len(d.rows) |-> {d.rows[r].members[j].id : j \in 1..Len(d.rows[r].members)}]
    \o [r \in 1..Len(d.ranks) |-> Range(d.ranks[r].members)]

\* C16: no node and no proxy is a member of two rank=same groups of one plan.
C16_RankGroupsDisjoint ==
    pc = "planned" =>
        \A a, b \in 1..Len(RankSameGroups(dot)) :
            a # b => RankSameGroups(dot)[a] \cap RankSameGroups(dot)[b] = {}

---------------------------------------------------------------------------
(* Properties of main (SpecMain).                                          *)

\* main has called draw_roadmap or generate_beautiful_roadmap.
RendererCalled ==
    pc \in {"planned", "planner_error", "rendered", "done"}
    \/ dot # NoDot
    \/ \E i \in 1..Len(calls) : calls[i].op \in {"render", "print"}

\* C17: in every run of main the renderer function is called only after
\* ensure_consistency was called on the Roadmap it gets and returned; every
\* render and print follows such a check of its Roadmap; and once
\* ensure_consistency has raised there is no renderer call, no plan, no
\* render and no printed path.
C17_RenderOnlyAfterCheck ==
    /\ RendererCalled =>
          \E i \in 1..Len(calls) :
              calls[i] = [op |-> "ensure_consistency", roadmap |-> roadmap_data,
                          result |-> "ok"]
    /\ \A i \in 1..Len(calls) :
          calls[i].op \in {"render", "print"} =>
              \E j \in 1..(i - 1) :
                  calls[j] = [op |-> "ensure_consistency", roadmap |-> calls[i].roadmap,
                              result |-> "ok"]
    /\ (\E i \in 1..Len(calls) :
            calls[i].op = "ensure_consistency" /\ calls[i].result # "ok")
          => (dot = NoDot /\ pc = "consistency_error"
              /\ \A i \in 1..Len(calls) : calls[i].op = "ensure_consistency")

\* The extraction path with style "classic" has printed the path of the
\* artifact rendered from the Roadmap the reply describes.
C17_Witness ==
    /\ pc = "done"
    /\ ~args.mock
    /\ args.style = "classic"
    /\ dot.mode = "stacked"
    /\ roadmap_data = Roadmap(Payload("ok"))
    /\ Len(calls) = 3
    /\ calls[3].op = "print"

---------------------------------------------------------------------------
(* Properties of the edges of a plan (SpecPlan, SpecEdges).                *)

\* What the other planner hands to dot.render for the same Roadmap.
OtherMode(d) ==
    IF d.mode = "stacked" THEN generate_beautiful_roadmap(roadmap_data)
    ELSE draw_roadmap(roadmap_data, max_methods_per_row)

VisibilityClass(e) ==
    IF RenderedStyle(e) = "invis" THEN "invisible"
    ELSE IF RenderedStyle(e) = "dashed" /\ RenderedArrow(e) = "none" THEN "dashed arrowless"
    ELSE IF RenderedStyle(e) = "solid" /\ RenderedArrow(e) = "normal" THEN "solid arrowed"
    ELSE "other"

AdjacencyPairs(d, origin) ==
    {<<e.source, e.target, VisibilityClass(e)>> : e \in Range(EdgesFrom(d, {origin}))}

\* C18: the plan of one mode and the plan of the other mode for the same
\* Roadmap give the k-th explicit edge the same ends and the same visibility
\* class, one of invisible, dashed arrowless and solid arrowed, and hold the
\* same task adjacency edges and the same stage adjacency edges.
C18_ModesAgreeOnEdges ==
    pc = "planned" =>
        LET mine == EdgesFrom(dot, {"explicit"})
            theirs == EdgesFrom(OtherMode(dot), {"explicit"})
        IN  /\ OtherMode(dot).mode # dot.mode
            /\ Len(mine) = Len(theirs)
            /\ \A k \in 1..Len(mine) :
                  /\ mine[k].source = theirs[k].source
                  /\ mine[k].target = theirs[k].target
                  /\ VisibilityClass(mine[k]) = VisibilityClass(theirs[k])
                  /\ VisibilityClass(mine[k]) # "other"
            /\ AdjacencyPairs(dot, "task_adjacency")
                  = AdjacencyPairs(OtherMode(dot), "task_adjacency")
            /\ AdjacencyPairs(dot, "stage_adjacency")
                  = AdjacencyPairs(OtherMode(dot), "stage_adjacency")

\* Column mode has planned a phase node followed by a stage_label node, with a
\* solid arrowed edge from a task to the phase node and a stage adjacency edge.
C18_Witness ==
    /\ pc = "planned"
    /\ dot.mode = "column"
    /\ Len(EdgesFrom(dot, {"stage_adjacency"})) = 1
    /\ \E i \in 1..Len(roadmap_data.nodes) : roadmap_data.nodes[i].type = "phase"
    /\ \E k \in 1..Len(dot.edges) :
          /\ dot.edges[k].origin = "explicit"
          /\ TypeOfId(roadmap_data, dot.edges[k].source) = "task"
          /\ TypeOfId(roadmap_data, dot.edges[k].target) = "phase"
          /\ VisibilityClass(dot.edges[k]) = "solid arrowed"

\* C19: in both modes the edges that the loop over the Roadmap's edges emits
\* are the Roadmap's edges, one for one and in order, each with its source,
\* its target and its label.
C19_ExplicitEdgesOnceInOrder ==
    pc = "planned" =>
        LET ex == EdgesFrom(dot, {"explicit"})
        IN  [k \in 1..Len(ex) |-> <<ex[k].source, ex[k].target, ex[k].label>>]
            = [k \in 1..Len(roadmap_data.edges) |->
                  <<roadmap_data.edges[k].source, roadmap_data.edges[k].target,
                    roadmap_data.edges[k].label>>]

\* Stacked mode has emitted two edges between the same two nodes, the first
\* labelled and invisible, the second unlabelled and running the other way.
C19_Witness ==
    /\ pc = "planned"
    /\ dot.mode = "stacked"
    /\ Len(roadmap_data.edges) = 2
    /\ roadmap_data.edges[1].label # <<>>
    /\ roadmap_data.edges[2].label = <<>>
    /\ roadmap_data.edges[1].source = roadmap_data.edges[2].target
    /\ roadmap_data.edges[1].target = roadmap_data.edges[2].source
    /\ roadmap_data.edges[1].source # roadmap_data.edges[1].target
    /\ EdgesFrom(dot, {"explicit"})[1].style = "invis"

\* C20: when no two explicit edges have the same source and target, the
\* edges of a column-mode plan (explicit, task adjacency, chain and stage
\* adjacency) have pairwise different (source, target) pairs.
C20_NoPairTwice ==
    (pc = "planned" /\ dot.mode = "column"
       /\ Cardinality(existing_pairs(roadmap_data)) = Len(roadmap_data.edges)) =>
        \A a, b \in 1..Len(dot.edges) :
            a # b => <<dot.edges[a].source, dot.edges[a].target>>
                       # <<dot.edges[b].source, dot.edges[b].target>>

=============================================================================
